---- MODULE Spec2Model ----
(***************************************************************************)
(* Model of the real-time speech translator page (Index), its recording   *)
(* hook (useAudioRecording), translation hook (useTranslation) and        *)
(* text-to-speech hook (useTextToSpeech).                                  *)
(*                                                                         *)
(* Text is a sequence of one-character strings.  Every action is one task *)
(* of the browser event loop: the handler code, the batched React state   *)
(* update and the effects that the update re-runs.  An await on a network *)
(* call, on getUserMedia, on audioWorklet.addModule or on                  *)
(* audioContext.close() ends the task; the continuation is another action. *)
(***************************************************************************)
EXTENDS Integers, Sequences, FiniteSets, TLC

\* ------------------------------------------------------------------ bounds
MaxStarts      == 2   \* Spec: start toggles in one run
MaxStops       == 2   \* Spec: stop toggles in one run
MaxFragments   == 1   \* Spec: final transcript events in one run
MaxTranslateCalls == 2  \* SpecTranslation: translateText calls in one run
MaxTextLen        == 1  \* SpecTranslation: longest text handed to translateText
SettingsFragments == 2  \* SpecSettings: final transcript events in one run
FlushStops     == 1   \* SpecFlush: stop toggles in one run
FlushFragments == 2   \* SpecFlush: final transcript events in one run
RestartStops   == 1   \* SpecRestart: stop toggles in one run
RestartFinals  == 1   \* SpecRestart: merged transcripts in one run
OverlapStops     == 1 \* SpecOverlap: stop toggles in one run
OverlapFragments == 3 \* SpecOverlap: final transcript events in one run
CoordStops     == 2   \* SpecCoordinator: stop toggles in one run
CoordFragments == 2   \* SpecCoordinator: final transcript events in one run
MaxFragLen     == 2   \* SpecAccumulator: longest fragment
MaxAppends     == 2   \* SpecAccumulator: appends in one run
SessionStops   == 1   \* SpecSession: stop toggles in one run
SessionFinals  == 1   \* SpecSession: merged transcripts in one run
MaxFrames      == 2   \* SpecSession: sample blocks in one run
SpeechStops     == 1  \* SpecSpeech: stop toggles in one run
SpeechFragments == 1  \* SpecSpeech: final transcript events in one run

\* ---------------------------------------------------------------- alphabet
Space == " "
Tab   == "\t"
Whitespace  == {Space, Tab}
Punctuation == {".", "?", "!"}
Alphabet    == {"a", ".", Space, Tab}

\* texts the transcription provider delivers as final utterances
Fragments == {<<"a">>, <<"a", ".">>}
\* texts the translation provider returns
Renderings == {<<"b">>, <<"b", " ", "b">>, <<"b", " ", "b", ".">>, <<"b", ".">>}

RECURSIVE StringsUpTo(_)
StringsUpTo(n) ==
    IF n = 0 THEN {<<>>}
    ELSE LET shorter == StringsUpTo(n - 1)
         IN  shorter \cup {Append(s, c) : s \in {t \in shorter : Len(t) = n - 1}, c \in Alphabet}

\* ------------------------------------------------------- string primitives
\* String.prototype.trim
RECURSIVE TrimStart(_)
TrimStart(s) ==
    IF s # <<>> /\ Head(s) \in Whitespace THEN TrimStart(Tail(s)) ELSE s

RECURSIVE TrimEnd(_)
TrimEnd(s) ==
    IF s # <<>> /\ s[Len(s)] \in Whitespace THEN TrimEnd(SubSeq(s, 1, Len(s) - 1)) ELSE s

Trim(s) == TrimEnd(TrimStart(s))

\* String.prototype.substring(n), one argument
Substring(s, n) == SubSeq(s, n + 1, Len(s))

\* s.endsWith(" ") and s.startsWith(" ")
EndsWithSpace(s)   == s # <<>> /\ s[Len(s)] = Space
StartsWithSpace(s) == s # <<>> /\ Head(s) = Space

\* a test that takes every non-empty text for a complete sentence
EndsWithAnything(s) == s # <<>>

\* /[.?!]$/.test(s)
EndsWithPunctuation(s) == s # <<>> /\ s[Len(s)] \in Punctuation

\* ------------------------------------------------------------------- state
VARIABLES
    sourceText,        \* Index: useState sourceText
    translatedText,    \* Index: useState translatedText
    isRecording,       \* Index: useState isRecording
    lastSpoken,        \* Index: lastSpokenTranslatedTextRef.current
    timers,            \* Index: the pending timeouts of the text-to-speech effect, with their closures
    isSpeaking,        \* useTextToSpeech: useState isSpeaking
    speakOps,          \* speak() calls between their fetch and the end of their playback
    nSpeaks,           \* speak() calls made so far
    calls,             \* translateText() calls awaiting their response
    nCalls,            \* translateText() calls made so far
    newestDelivered,   \* highest call number whose result reached setTranslatedText
    sessions,          \* per startRecording() call: its position and its resources
    nStarts,           \* start toggles so far
    streamRef,         \* useAudioRecording: streamRef.current (0 is null)
    wsRef,             \* useAudioRecording: wsRef.current (0 is null)
    audioProcessorRef, \* useAudioRecording: audioProcessorRef.current (0 is null)
    isConnected,       \* useAudioRecording: useState isConnected
    stopHandlers,      \* handleRecordingToggle stop branches awaiting stopRecording()
    nStops,            \* stop toggles so far
    nFragments,        \* final transcript events so far
    fresh,             \* a start toggle happened and no stop toggle or final fragment since
    lastAppend,        \* arguments and result of the last onTranscription call
    apiKeys,           \* localStorage: the providers whose API key is configured
    translationError,  \* useTranslation: useState error
    ttsError,          \* useTextToSpeech: useState error
    audioError,        \* useAudioRecording: useState error
    isTranslating,     \* useTranslation: useState isTranslating
    nFrames,           \* sample blocks posted by the worklet so far
    wire,              \* what was sent on the connections, in order
    lastMessage,       \* the last message handed to ws.onmessage by WsMessage
    lastTranslate,     \* number and text of the last translateText call of TranslateTextCall
    delivered          \* the texts handed to onTranscription since the last start toggle, in order

vars == <<sourceText, translatedText, isRecording, lastSpoken, timers, isSpeaking,
          speakOps, nSpeaks, calls, nCalls, newestDelivered, sessions, nStarts,
          streamRef, wsRef, audioProcessorRef, isConnected, stopHandlers, nStops,
          nFragments, fresh, lastAppend, apiKeys, translationError, ttsError,
          audioError, isTranslating, nFrames, wire, lastMessage, lastTranslate,
          delivered>>

pageVars    == <<sourceText, translatedText, isRecording, lastSpoken, timers, isSpeaking,
                 speakOps, nSpeaks, calls, nCalls, translationError, ttsError,
                 isTranslating>>
sessionVars == <<sessions, streamRef, wsRef, audioProcessorRef, isConnected>>

NoTimer  == [armed |-> FALSE]
NoMessage == [type |-> "none"]

\* the three providers and the values of the error states
Providers == {"gladia", "azure", "elevenlabs"}
NoError              == "null"
AzureKeyMissing      == "Azure API key not configured"
TranslationFailed    == "Translation failed"
ElevenLabsKeyMissing == "ElevenLabs API key not configured"
SynthesisFailed      == "Text-to-speech failed"
InvalidResponseFormat == "Invalid translation response format"
GladiaKeyMissing     == "Gladia API key not configured"
StartFailed          == "Failed to start recording"
StopFailed           == "Failed to stop recording"
TranscriptionError   == "Transcription error"
WebSocketError       == "WebSocket connection error"
ConnectionClosed     == "Connection closed unexpectedly"

\* the close codes of a connection: 1000 is the normal closure, 1005 the code
\* of a close event when the peer's Close frame carries no status code (the
\* usual answer to a close() called without a code), 1006 the code of a
\* connection that failed
NormalClosure    == 1000
NoStatusReceived == 1005
AbnormalClosure  == 1006
CloseCodes == {NormalClosure, NoStatusReceived, AbnormalClosure}

\* the close codes of Spec: a close without a status code, like a failure of
\* audioWorklet.addModule, is part of SpecSession and SpecRestart
CodedCloses == {NormalClosure, AbnormalClosure}

\* hasApiKeys: the three keys are configured
hasApiKeys(keys) == Providers \subseteq keys
NoAppend == [done |-> FALSE]
NoCall == [n |-> 0, text |-> <<>>]

\* the SpokenWatermark of the specification: the length of the text recorded as spoken
SpokenWatermark == Len(lastSpoken)

\* ------------------------------------------------------ TranscriptAccumulator
\* needsSpace with the punctuation test on prevText itself, not on prevText.trim()
NeedsSpaceUntrimmed(prevText, newTextChunk) ==
    /\ Len(prevText) > 0
    /\ Len(newTextChunk) > 0
    /\ ~EndsWithSpace(prevText)
    /\ ~StartsWithSpace(newTextChunk)
    /\ ~EndsWithPunctuation(prevText)

\* onTranscription: the needsSpace test
NeedsSpace(prevText, newTextChunk) ==
    /\ Len(prevText) > 0
    /\ Len(newTextChunk) > 0
    /\ ~EndsWithSpace(prevText)
    /\ ~StartsWithSpace(newTextChunk)
    /\ ~EndsWithPunctuation(Trim(prevText))

\* onTranscription appending to the sourceText of the render that
\* startRecording captured (the empty text) instead of the previous state
AppendFragmentStaleClosure(prevText, newTextChunk) ==
    (IF NeedsSpace(<<>>, newTextChunk) THEN <<Space>> ELSE <<>>) \o newTextChunk

\* onTranscription: the functional update handed to setSourceText
AppendFragment(prevText, newTextChunk) ==
    prevText \o (IF NeedsSpace(prevText, newTextChunk) THEN <<Space>> ELSE <<>>) \o newTextChunk

\* ---------------------------------------------------------- SpeechCoordinator
\* NewPortion without the substring: the whole text counts as unspoken
NewPortionWholeText(text, spoken) == Trim(text)

\* translatedText.substring(lastSpokenTranslatedTextRef.current.length).trim()
NewPortion(text, spoken) == Trim(Substring(text, Len(spoken)))

\* The text-to-speech effect without the debounce: a portion without terminal
\* punctuation is spoken at once, recording or not
TTSEffectNeverDebounced(text, speaking, recording, spoken) ==
    LET newTranslatedPortion == NewPortion(text, spoken)
        idle == [timer |-> NoTimer, say |-> <<>>, spoken |-> spoken]
    IN  IF Trim(text) = <<>> \/ speaking THEN idle
        ELSE IF newTranslatedPortion = <<>> THEN idle
        ELSE [timer |-> NoTimer, say |-> newTranslatedPortion, spoken |-> text]

\* The text-to-speech effect with a punctuation branch that arms the timeout,
\* as for a text without terminal punctuation
TTSEffectAlwaysDebounced(text, speaking, recording, spoken) ==
    LET newTranslatedPortion == NewPortion(text, spoken)
        idle == [timer |-> NoTimer, say |-> <<>>, spoken |-> spoken]
    IN  IF Trim(text) = <<>> \/ speaking THEN idle
        ELSE IF newTranslatedPortion = <<>> THEN idle
        ELSE IF recording
             THEN [timer |-> [armed |-> TRUE, portion |-> newTranslatedPortion,
                              text |-> text, speaking |-> speaking],
                   say |-> <<>>, spoken |-> spoken]
        ELSE [timer |-> NoTimer, say |-> newTranslatedPortion, spoken |-> text]

\* The text-to-speech effect without the test of isRecording: a portion
\* without terminal punctuation gets a timeout whether the page records or not
TTSEffectDebouncedWhenStopped(text, speaking, recording, spoken) ==
    LET newTranslatedPortion == NewPortion(text, spoken)
        idle == [timer |-> NoTimer, say |-> <<>>, spoken |-> spoken]
    IN  IF Trim(text) = <<>> \/ speaking THEN idle
        ELSE IF newTranslatedPortion = <<>> THEN idle
        ELSE IF EndsWithPunctuation(newTranslatedPortion)
             THEN [timer |-> NoTimer, say |-> newTranslatedPortion, spoken |-> text]
        ELSE [timer |-> [armed |-> TRUE, portion |-> newTranslatedPortion,
                         text |-> text, speaking |-> speaking],
              say |-> <<>>, spoken |-> spoken]

\* One run of the text-to-speech effect for a render with the given values.
\* say is the text handed to speak() (empty: no call), spoken the new value of
\* the ref, timer the timeout it arms (NoTimer: none).
TTSEffect(text, speaking, recording, spoken) ==
    LET newTranslatedPortion == NewPortion(text, spoken)
        idle == [timer |-> NoTimer, say |-> <<>>, spoken |-> spoken]
    IN  IF Trim(text) = <<>> \/ speaking THEN idle
        ELSE IF newTranslatedPortion = <<>> THEN idle
        ELSE IF EndsWithPunctuation(newTranslatedPortion)
             THEN [timer |-> NoTimer, say |-> newTranslatedPortion, spoken |-> text]
        ELSE IF recording
             THEN [timer |-> [armed |-> TRUE, portion |-> newTranslatedPortion,
                              text |-> text, speaking |-> speaking],
                   say |-> <<>>, spoken |-> spoken]
        ELSE [timer |-> NoTimer, say |-> newTranslatedPortion, spoken |-> text]

\* The condition of the timeout callback, on the values its closure captured
\* and the current value of the ref.
DebounceStillValid(tm, spoken) ==
    ~tm.speaking /\ NewPortion(tm.text, spoken) = tm.portion

\* handleRecordingToggle, stop branch: the text to flush and whether to flush it
RemainingText(text, spoken) == NewPortion(text, spoken)
ShouldFlush(remainingText, speaking) == remainingText # <<>> /\ ~speaking

\* clearTimeout(ttsDebounceTimerRef.current) without effect: what was pending
\* stays pending
ClearTimeoutNoop(ts) == ts

\* clearTimeout(ttsDebounceTimerRef.current): the timeout whose handle the ref
\* holds is no longer pending (a handle of a timeout that ran or was cleared
\* clears nothing)
ClearTimeout(ts) == {t \in ts : ~t.held}

\* ttsDebounceTimerRef.current = setTimeout(...): the ref takes the handle of
\* the new timeout tm and lets go of the one it held
SetTimeout(ts, tm) ==
    {[t EXCEPT !.held = FALSE] : t \in ts}
        \cup {[portion |-> tm.portion, text |-> tm.text, speaking |-> tm.speaking,
                held |-> TRUE]}

\* a call speak(text, targetLanguage) and the code that makes it: the
\* text-to-speech effect, the timeout callback or the stop branch
Request(text, by) == [text |-> text, by |-> by]

\* speak(): the calls that pass `if (!text.trim()) return` start a synthesis
SpeakCalls(requests, first) ==
    {[id |-> first + i, text |-> requests[i].text, by |-> requests[i].by,
      phase |-> "synth"] : i \in 1..Len(requests)}

\* translateText without the test of the text: a blank text is sent as well
TranslateTextNoBlankTest(text, keys, error, translating) ==
    IF "azure" \notin keys
    THEN [sent |-> FALSE, error |-> AzureKeyMissing, translating |-> FALSE]
    ELSE [sent |-> TRUE, error |-> NoError, translating |-> TRUE]

\* translateText without the test of the key: the request is always sent
TranslateTextNoKeyTest(text, keys, error, translating) ==
    IF Trim(text) = <<>>
    THEN [sent |-> FALSE, error |-> error, translating |-> translating]
    ELSE [sent |-> TRUE, error |-> NoError, translating |-> TRUE]

\* translateText up to its first await, for a text, the configured keys, the
\* current error state and the current isTranslating flag: whether the request
\* is sent, and the error state and the flag left (without a key the finally
\* block has run)
TranslateText(text, keys, error, translating) ==
    IF Trim(text) = <<>>
    THEN [sent |-> FALSE, error |-> error, translating |-> translating]
    ELSE IF "azure" \notin keys
    THEN [sent |-> FALSE, error |-> AzureKeyMissing, translating |-> FALSE]
    ELSE [sent |-> TRUE, error |-> NoError, translating |-> TRUE]

\* speak() up to its first await, for the calls that pass the blank-text test:
\* the synthesis requests sent and the error state left
Speak(requests, first, keys, error) ==
    IF requests = <<>> THEN [ops |-> {}, error |-> error]
    ELSE IF "elevenlabs" \notin keys THEN [ops |-> {}, error |-> ElevenLabsKeyMissing]
    ELSE [ops |-> SpeakCalls(requests, first), error |-> NoError]

\* ---------------------------------------------------------------- rendering
\* The end of a task: React applies the batched updates (src1, text1, speaking1,
\* recording1), re-renders and runs the effects whose dependencies changed.
\*   - the auto-translate effect runs when sourceText changed: it calls
\*     translateText for a non-blank text and clears translatedText otherwise;
\*   - the text-to-speech effect runs when translatedText, isSpeaking or
\*     isRecording changed; what it sets causes one more render, whose run of
\*     the effect clears the timer and returns.
\* spoken1 is the ref and timers1 the pending timeouts as the task's own code
\* left them, said0 the speak() calls the task's own code made, calls1 and ops1
\* the pending calls it left, ttsErr1 the error state of useTextToSpeech and
\* translating1 the isTranslating flag it left.
Commit(src1, text1, speaking1, recording1, spoken1, timers1, said0, calls1, ops1, ttsErr1, translating1) ==
    LET srcChanged == src1 # sourceText
        blank      == Trim(src1) = <<>>
        run1       == text1 # translatedText \/ speaking1 # isSpeaking
                          \/ recording1 # isRecording
        e1         == IF run1 THEN TTSEffect(text1, speaking1, recording1, spoken1)
                      ELSE [timer |-> NoTimer, say |-> <<>>, spoken |-> spoken1]
        cleared    == ClearTimeout(timers1)
        timers2    == IF ~run1 THEN timers1
                      ELSE IF e1.timer.armed THEN SetTimeout(cleared, e1.timer)
                      ELSE cleared
        text2      == IF srcChanged /\ blank THEN <<>> ELSE text1
        speaking2  == speaking1 \/ e1.say # <<>>
        run2       == text2 # text1 \/ speaking2 # speaking1
        NonBlank(r) == Trim(r.text) # <<>>
        said       == SelectSeq(said0, NonBlank)
                      \o (IF e1.say # <<>> THEN <<Request(e1.say, "effect")>> ELSE <<>>)
        spoke      == Speak(said, nSpeaks, apiKeys, ttsErr1)
        translate  == IF srcChanged /\ ~blank
                      THEN TranslateText(src1, apiKeys, translationError, translating1)
                      ELSE [sent |-> FALSE, error |-> translationError,
                            translating |-> translating1]
    IN  /\ sourceText' = src1
        /\ translatedText' = text2
        /\ isRecording' = recording1
        /\ isSpeaking' = speaking2
        /\ lastSpoken' = e1.spoken
        /\ timers' = IF run2 THEN ClearTimeout(timers2) ELSE timers2
        /\ speakOps' = ops1 \cup spoke.ops
        /\ nSpeaks' = nSpeaks + Len(said)
        /\ ttsError' = spoke.error
        /\ translationError' = translate.error
        /\ isTranslating' = translate.translating
        /\ IF translate.sent
           THEN /\ calls' = calls1 \cup {[id |-> nCalls + 1, text |-> src1]}
                /\ nCalls' = nCalls + 1
           ELSE /\ calls' = calls1
                /\ nCalls' = nCalls

\* -------------------------------------------------------------------- Init
NoSession == [pc |-> "none", stream |-> FALSE, ws |-> "none", graph |-> "none",
              stopped |-> FALSE, code |-> 0]

Init ==
    /\ sourceText = <<>>
    /\ translatedText = <<>>
    /\ isRecording = FALSE
    /\ lastSpoken = <<>>
    /\ timers = {}
    /\ isSpeaking = FALSE
    /\ speakOps = {}
    /\ nSpeaks = 0
    /\ calls = {}
    /\ nCalls = 0
    /\ newestDelivered = 0
    /\ sessions = [s \in 1..MaxStarts |-> NoSession]
    /\ nStarts = 0
    /\ streamRef = 0
    /\ wsRef = 0
    /\ audioProcessorRef = 0
    /\ isConnected = FALSE
    /\ stopHandlers = {}
    /\ nStops = 0
    /\ nFragments = 0
    /\ fresh = FALSE
    /\ lastAppend = NoAppend
    /\ apiKeys \in SUBSET Providers
    /\ translationError = NoError
    /\ ttsError = NoError
    /\ audioError = NoError
    /\ isTranslating = FALSE
    /\ nFrames = 0
    /\ wire = <<>>
    /\ lastMessage = NoMessage
    /\ lastTranslate = NoCall
    /\ delivered = <<>>

\* ------------------------------------------------------- useAudioRecording
Max(a, b) == IF a >= b THEN a ELSE b

\* A click on the record button while not recording (the button is disabled
\* unless hasApiKeys()): handleRecordingToggle, start branch, up to the first
\* await of startRecording (navigator.mediaDevices.getUserMedia); without a
\* Gladia key startRecording sets the error state and returns false at once
StartClick ==
    /\ hasApiKeys(apiKeys)
    /\ ~isRecording
    /\ nStarts' = nStarts + 1
    /\ audioError' = IF "gladia" \in apiKeys THEN NoError ELSE GladiaKeyMissing
    /\ sessions' = [sessions EXCEPT ![nStarts + 1] =
                       [NoSession EXCEPT !.pc = IF "gladia" \in apiKeys
                                                THEN "getUserMedia" ELSE "failed"]]
    /\ fresh' = TRUE
    /\ delivered' = <<>>
    /\ Commit(<<>>, <<>>, isSpeaking, isRecording, <<>>, ClearTimeout(timers), <<>>,
              calls, speakOps, ttsError, isTranslating)
    /\ UNCHANGED <<newestDelivered, streamRef, wsRef, audioProcessorRef, isConnected,
                   stopHandlers, nStops, nFragments, lastAppend>>
    /\ UNCHANGED <<apiKeys, lastTranslate, nFrames, lastMessage, wire>>

\* startRecording: getUserMedia resolves; the session request is sent
GetUserMediaOk(s) ==
    /\ sessions[s].pc = "getUserMedia"
    /\ sessions' = [sessions EXCEPT ![s].pc = "fetch", ![s].stream = TRUE]
    /\ streamRef' = s
    /\ UNCHANGED <<pageVars, newestDelivered, nStarts, wsRef, audioProcessorRef,
                   isConnected, stopHandlers, nStops, nFragments, fresh, lastAppend, delivered>>
    /\ UNCHANGED <<apiKeys, lastTranslate, audioError, nFrames, lastMessage, wire>>

\* startRecording: getUserMedia rejects; the catch block sets the error state
\* and returns false
GetUserMediaFail(s) ==
    /\ sessions[s].pc = "getUserMedia"
    /\ sessions' = [sessions EXCEPT ![s].pc = "failed"]
    /\ UNCHANGED <<pageVars, newestDelivered, nStarts, streamRef, wsRef, audioProcessorRef,
                   isConnected, stopHandlers, nStops, nFragments, fresh, lastAppend, delivered>>
    /\ audioError' = StartFailed
    /\ UNCHANGED <<apiKeys, lastTranslate, nFrames, lastMessage, wire>>

\* startRecording: the session request succeeds; the WebSocket and the
\* AudioContext are created, audioWorklet.addModule is awaited
SessionRequestOk(s) ==
    /\ sessions[s].pc = "fetch"
    /\ sessions' = [sessions EXCEPT ![s].pc = "addModule", ![s].ws = "connecting",
                                    ![s].graph = "context"]
    /\ wsRef' = s
    /\ UNCHANGED <<pageVars, newestDelivered, nStarts, streamRef, audioProcessorRef,
                   isConnected, stopHandlers, nStops, nFragments, fresh, lastAppend, delivered>>
    /\ UNCHANGED <<apiKeys, lastTranslate, audioError, nFrames, lastMessage, wire>>

\* startRecording: the session request fails; the catch block sets the error
\* state and returns false
SessionRequestFail(s) ==
    /\ sessions[s].pc = "fetch"
    /\ sessions' = [sessions EXCEPT ![s].pc = "failed"]
    /\ UNCHANGED <<pageVars, newestDelivered, nStarts, streamRef, wsRef, audioProcessorRef,
                   isConnected, stopHandlers, nStops, nFragments, fresh, lastAppend, delivered>>
    /\ audioError' = StartFailed
    /\ UNCHANGED <<apiKeys, lastTranslate, nFrames, lastMessage, wire>>

\* startRecording: the worklet module is loaded, the graph is connected and
\* true is returned; handleRecordingToggle then calls setIsRecording(true)
AddModuleOk(s) ==
    /\ sessions[s].pc = "addModule"
    /\ sessions' = [sessions EXCEPT ![s].pc = "done", ![s].graph = "live"]
    /\ audioProcessorRef' = s
    /\ Commit(sourceText, translatedText, isSpeaking, TRUE, lastSpoken, timers, <<>>,
              calls, speakOps, ttsError, isTranslating)
    /\ UNCHANGED <<newestDelivered, nStarts, streamRef, wsRef, isConnected,
                   stopHandlers, nStops, nFragments, fresh, lastAppend, delivered>>
    /\ UNCHANGED <<apiKeys, lastTranslate, audioError, nFrames, lastMessage, wire>>

\* startRecording: audioWorklet.addModule rejects (or the AudioWorkletNode
\* cannot be created); the catch block sets the error state and returns false
AddModuleFail(s) ==
    /\ sessions[s].pc = "addModule"
    /\ sessions' = [sessions EXCEPT ![s].pc = "failed"]
    /\ UNCHANGED <<pageVars, newestDelivered, nStarts, streamRef, wsRef, audioProcessorRef,
                   isConnected, stopHandlers, nStops, nFragments, fresh, lastAppend, delivered>>
    /\ audioError' = StartFailed
    /\ UNCHANGED <<apiKeys, lastTranslate, nFrames, lastMessage, wire>>

\* ws.onopen
WsOpen(s) ==
    /\ sessions[s].ws = "connecting"
    /\ sessions' = [sessions EXCEPT ![s].ws = "open"]
    /\ isConnected' = TRUE
    /\ UNCHANGED <<pageVars, newestDelivered, nStarts, streamRef, wsRef, audioProcessorRef,
                   stopHandlers, nStops, nFragments, fresh, lastAppend, delivered>>
    /\ UNCHANGED <<apiKeys, lastTranslate, audioError, nFrames, lastMessage, wire>>

\* ws.onclose reports every close as a normal one
CloseErrorNever(code, error) == error

\* ws.onclose: `if (event.code !== 1000) setError(...)`
CloseError(code, error) == IF code # NormalClosure THEN ConnectionClosed ELSE error

\* The connection of session s is closed with a code: after the closing
\* handshake, by the peer, or because it failed (also while connecting).  A
\* failed connection gets ws.onerror and then ws.onclose in the same task.
WsClosed(s, code) ==
    /\ sessions[s].ws \in {"connecting", "open", "closing"}
    /\ sessions[s].ws = "connecting" => code = AbnormalClosure
    /\ sessions' = [sessions EXCEPT ![s].ws = "closed", ![s].code = code]
    /\ isConnected' = FALSE
    /\ audioError' = CloseError(code, IF code = AbnormalClosure THEN WebSocketError
                                      ELSE audioError)
    /\ UNCHANGED <<pageVars, newestDelivered, nStarts, streamRef, wsRef, audioProcessorRef,
                   stopHandlers, nStops, nFragments, fresh, lastAppend, delivered>>
    /\ UNCHANGED <<apiKeys, lastTranslate, nFrames, lastMessage, wire>>

\* The onTranscription callback of Index with the effects of its update
OnTranscription(newTextChunk) ==
    /\ fresh' = FALSE
    /\ nFragments' = nFragments + 1
    /\ delivered' = Append(delivered, newTextChunk)
    /\ Commit(AppendFragment(sourceText, newTextChunk), translatedText, isSpeaking,
              isRecording, lastSpoken, timers, <<>>, calls, speakOps, ttsError, isTranslating)

\* ws.onmessage with a transcript event that has is_final set and a text
WsFinal(s, text) ==
    /\ sessions[s].ws \in {"open", "closing"}
    /\ text # <<>>
    /\ OnTranscription(text)
    /\ UNCHANGED <<newestDelivered, sessionVars, nStarts, stopHandlers, nStops, lastAppend>>
    /\ UNCHANGED <<apiKeys, lastTranslate, audioError, nFrames, lastMessage, wire>>

\* an event whose data is not JSON, or is the JSON value null
Malformed == [type |-> "malformed"]

\* error events of the provider, with and without a message
ErrorEvents == [type : {"error"}, message : {"", "session expired"}]

\* the messages of the provider: transcripts, final or not, with or without a
\* text, acknowledgements of audio chunks, error events, and what cannot be
\* parsed
Messages ==
    [type : {"transcript", "audio_chunk"}, is_final : BOOLEAN, text : Fragments \cup {<<>>}]
        \cup ErrorEvents \cup {Malformed}

\* ws.onmessage takes an error event for a fatal one and closes the connection
AfterErrorEventClosed(readyState) == "closing"

\* ws.onmessage, error event: the connection is left as it is
AfterErrorEvent(readyState) == readyState

\* ws.onmessage reports a message it cannot parse as an error of the session
AfterMalformedReported(error) == TranscriptionError

\* ws.onmessage, catch block: the exception is logged, the error state is kept
AfterMalformed(error) == error

\* ws.onmessage, error event: message.data?.message || "Transcription error"
ErrorOf(message) == IF message.message # "" THEN message.message ELSE TranscriptionError

\* ws.onmessage merges every transcript that has a text, final or not
IsMergedAnyTranscript(message) ==
    message.type = "transcript" /\ message.text # <<>>

\* ws.onmessage: message.type === "transcript" && message.data?.is_final, and
\* the text of the utterance is not empty
IsMerged(message) ==
    message.type = "transcript" /\ message.is_final /\ message.text # <<>>

\* ws.onmessage for a message of the provider (WsFinal is the case of a final
\* transcript with a text)
WsMessage(s, message) ==
    /\ sessions[s].ws \in {"open", "closing"}
    /\ lastMessage' = message
    /\ IF IsMerged(message)
       THEN OnTranscription(message.text)
       ELSE UNCHANGED <<pageVars, nFragments, fresh, delivered>>
    /\ IF message.type = "error"
       THEN /\ audioError' = ErrorOf(message)
            /\ sessions' = [sessions EXCEPT ![s].ws = AfterErrorEvent(sessions[s].ws)]
       ELSE /\ audioError' = IF message.type = "malformed" THEN AfterMalformed(audioError)
                              ELSE audioError
            /\ UNCHANGED sessions
    /\ UNCHANGED <<newestDelivered, streamRef, wsRef, audioProcessorRef, isConnected,
                   nStarts, stopHandlers, nStops, lastAppend, apiKeys, lastTranslate,
                   nFrames, wire>>

\* node.port.onmessage sends the block whatever the state of the connection
FrameSentAlways(readyState) == TRUE

\* node.port.onmessage: `if (ws.readyState !== WebSocket.OPEN) return`
FrameSent(readyState) == readyState = "open"

\* node.port.onmessage for a block of samples posted by the worklet of session
\* s (a block posted before the node is disconnected may arrive after it): the
\* block is converted and sent on the connection of that session, or dropped
AudioFrame(s) ==
    /\ sessions[s].graph \in {"live", "closing"}
    /\ nFrames' = nFrames + 1
    /\ wire' = IF FrameSent(sessions[s].ws)
               THEN Append(wire, [session |-> s, kind |-> "frame", id |-> nFrames + 1,
                                  readyState |-> sessions[s].ws])
               ELSE wire
    /\ UNCHANGED <<pageVars, newestDelivered, sessionVars, nStarts, stopHandlers, nStops,
                   nFragments, fresh, lastAppend, delivered, apiKeys, lastTranslate, audioError,
                   lastMessage>>

\* the message stopRecording sends before it closes the connection
StopSignal(s) == [session |-> s, kind |-> "stop_recording"]

\* stopRecording after audioContext.close(): stop the tracks of
\* streamRef.current, send the stop signal and close wsRef.current when it is
\* open, clear the refs.  stopped marks the sessions whose stream, graph or
\* connection the refs held when stopRecording returned.
StopRecordingTail(sess) ==
    LET s1 == IF streamRef # 0 THEN [sess EXCEPT ![streamRef].stream = FALSE] ELSE sess
        wasOpen == wsRef # 0 /\ s1[wsRef].ws = "open"
        s2 == IF wasOpen THEN [s1 EXCEPT ![wsRef].ws = "closing"] ELSE s1
        held == {streamRef, wsRef, audioProcessorRef} \ {0}
    IN  /\ sessions' = [s \in DOMAIN s2 |->
                            IF s \in held THEN [s2[s] EXCEPT !.stopped = TRUE] ELSE s2[s]]
        /\ wire' = IF wasOpen THEN Append(wire, StopSignal(wsRef)) ELSE wire
        /\ streamRef' = 0
        /\ wsRef' = 0
        /\ audioProcessorRef' = 0
        /\ isConnected' = FALSE

\* handleRecordingToggle, stop branch, after `await stopRecording()`, with the
\* translatedText and isSpeaking of the render whose handler was clicked
StopBranchTail(text, speaking) ==
    LET remainingText == RemainingText(text, lastSpoken)
        flush == ShouldFlush(remainingText, speaking)
    IN  Commit(sourceText, translatedText, IF flush THEN TRUE ELSE isSpeaking, FALSE,
               IF flush THEN text ELSE lastSpoken, ClearTimeout(timers),
               IF flush THEN <<Request(remainingText, "stop")>> ELSE <<>>,
               calls, speakOps, ttsError, isTranslating)

\* A click on the record button while recording (the button is disabled
\* unless hasApiKeys()): handleRecordingToggle, stop branch, up to the await
\* in stopRecording.
\*   - a running context: the graph is disconnected and audioContext.close()
\*     is awaited, the handler resumes in StopResume;
\*   - a context whose close() is already pending (an earlier stop toggle):
\*     close() rejects with InvalidStateError, the catch block of stopRecording
\*     sets the error state and the handler resumes in the same task;
\*   - no graph, or a closed context: stopRecording runs through and the
\*     handler resumes in the same task.
StopClick ==
    /\ hasApiKeys(apiKeys)
    /\ isRecording
    /\ nStops' = nStops + 1
    /\ fresh' = FALSE
    /\ IF audioProcessorRef # 0 /\ sessions[audioProcessorRef].graph = "live"
       THEN /\ sessions' = [sessions EXCEPT ![audioProcessorRef].graph = "closing"]
            /\ stopHandlers' = stopHandlers \cup
                   {[id |-> nStops + 1, text |-> translatedText, speaking |-> isSpeaking,
                     context |-> audioProcessorRef]}
            /\ UNCHANGED <<pageVars, streamRef, wsRef, audioProcessorRef, isConnected, wire,
                           audioError>>
       ELSE IF audioProcessorRef # 0 /\ sessions[audioProcessorRef].graph = "closing"
       THEN /\ StopBranchTail(translatedText, isSpeaking)
            /\ audioError' = StopFailed
            /\ UNCHANGED <<sessionVars, stopHandlers, wire>>
       ELSE /\ StopRecordingTail(sessions)
            /\ StopBranchTail(translatedText, isSpeaking)
            /\ UNCHANGED <<stopHandlers, audioError>>
    /\ UNCHANGED <<newestDelivered, nStarts, nFragments, lastAppend, delivered>>
    /\ UNCHANGED <<apiKeys, lastTranslate, nFrames, lastMessage>>

\* audioContext.close() resolves: stopRecording and then the stop branch resume
StopResume(h) ==
    /\ h \in stopHandlers
    /\ stopHandlers' = stopHandlers \ {h}
    /\ StopRecordingTail([sessions EXCEPT ![h.context].graph = "closed"])
    /\ StopBranchTail(h.text, h.speaking)
    /\ UNCHANGED <<newestDelivered, nStarts, nStops, nFragments, fresh, lastAppend, delivered>>
    /\ UNCHANGED <<apiKeys, lastTranslate, audioError, nFrames, lastMessage>>

\* ------------------------------------------------------------ useTranslation
\* the messages of the errors thrown after the request was sent: a response
\* that is not ok, a payload without translations[0]
TranslationFailures == {TranslationFailed, InvalidResponseFormat}

\* what translateText resolves with: a text, or null
TextResult(translated) == [ok |-> TRUE, text |-> translated]
NullResult == [ok |-> FALSE]

\* the continuation of the effect clears translatedText when the result is null
DeliveredOrCleared(result, text) == IF result.ok THEN result.text ELSE <<>>

\* the continuation of the auto-translate effect:
\* `if (translated) setTranslatedText(translated)`, as the new translatedText
Delivered(result, text) == IF result.ok THEN result.text ELSE text

\* translateText resolves with a text; the effect calls setTranslatedText
TranslationOk(c, translated) ==
    /\ c \in calls
    /\ newestDelivered' = Max(newestDelivered, c.id)
    /\ Commit(sourceText, Delivered(TextResult(translated), translatedText), isSpeaking, isRecording, lastSpoken, timers, <<>>,
              calls \ {c}, speakOps, ttsError, FALSE)
    /\ UNCHANGED <<sessionVars, nStarts, stopHandlers, nStops, nFragments, fresh, lastAppend, delivered>>
    /\ UNCHANGED <<apiKeys, lastTranslate, audioError, nFrames, lastMessage, wire>>

\* translateText resolves with null (non-success response or malformed
\* payload): the catch block sets the error state, the finally block clears
\* isTranslating, and the effect sets nothing
TranslationFail(c, message) ==
    /\ c \in calls
    /\ calls' = calls \ {c}
    /\ translationError' = message
    /\ isTranslating' = FALSE
    /\ translatedText' = Delivered(NullResult, translatedText)
    /\ UNCHANGED <<sourceText, isRecording, lastSpoken, timers, isSpeaking,
                   speakOps, nSpeaks, nCalls, ttsError, newestDelivered, sessionVars, nStarts,
                   stopHandlers, nStops, nFragments, fresh, lastAppend, delivered>>
    /\ UNCHANGED <<apiKeys, lastTranslate, audioError, nFrames, lastMessage, wire>>

\* translateText called for any text, up to its first await (the auto-translate
\* effect, its only caller in Index, calls it for the non-blank sourceText)
TranslateTextCall(text) ==
    LET translate == TranslateText(text, apiKeys, translationError, isTranslating)
    IN  /\ lastTranslate' = [n |-> lastTranslate.n + 1, text |-> text]
        /\ translationError' = translate.error
        /\ isTranslating' = translate.translating
        /\ IF translate.sent
           THEN /\ calls' = calls \cup {[id |-> nCalls + 1, text |-> text]}
                /\ nCalls' = nCalls + 1
           ELSE UNCHANGED <<calls, nCalls>>
        /\ UNCHANGED <<sourceText, translatedText, isRecording, lastSpoken, timers,
                       isSpeaking, speakOps, nSpeaks, ttsError, newestDelivered,
                       sessionVars, nStarts, stopHandlers, nStops, nFragments, fresh,
                       lastAppend, delivered, apiKeys, audioError, nFrames, wire, lastMessage>>

\* ---------------------------------------------------------------- SettingsModal
\* handleSave: the keys typed into the dialog are written to localStorage (an
\* empty field leaves its provider without a key) and the dialog is closed,
\* which renders the page again
SettingsSave(keys) ==
    /\ apiKeys' = keys
    /\ UNCHANGED <<pageVars, newestDelivered, sessionVars, nStarts, stopHandlers, nStops,
                   nFragments, fresh, lastAppend, delivered, lastTranslate, audioError, nFrames, wire,
                   lastMessage>>

\* ----------------------------------------------------------- useTextToSpeech
\* speak: the synthesis response is ok; the audio element starts playing
SynthesisOk(o) ==
    /\ o \in speakOps
    /\ o.phase = "synth"
    /\ speakOps' = (speakOps \ {o}) \cup {[o EXCEPT !.phase = "playing"]}
    /\ UNCHANGED <<sourceText, translatedText, isRecording, lastSpoken, timers, isSpeaking,
                   nSpeaks, calls, nCalls, translationError, ttsError, isTranslating,
                   newestDelivered, sessionVars, nStarts,
                   stopHandlers, nStops, nFragments, fresh, lastAppend, delivered>>
    /\ UNCHANGED <<apiKeys, lastTranslate, audioError, nFrames, lastMessage, wire>>

\* speak: the synthesis request fails; the catch block calls setIsSpeaking(false)
SynthesisFail(o) ==
    /\ o \in speakOps
    /\ o.phase = "synth"
    /\ Commit(sourceText, translatedText, FALSE, isRecording, lastSpoken, timers, <<>>,
              calls, speakOps \ {o}, SynthesisFailed, isTranslating)
    /\ UNCHANGED <<newestDelivered, sessionVars, nStarts, stopHandlers, nStops,
                   nFragments, fresh, lastAppend, delivered>>
    /\ UNCHANGED <<apiKeys, lastTranslate, audioError, nFrames, lastMessage, wire>>

\* speak: audio.onended or audio.onerror; both call setIsSpeaking(false)
PlaybackFinished(o) ==
    /\ o \in speakOps
    /\ o.phase = "playing"
    /\ Commit(sourceText, translatedText, FALSE, isRecording, lastSpoken, timers, <<>>,
              calls, speakOps \ {o}, ttsError, isTranslating)
    /\ UNCHANGED <<newestDelivered, sessionVars, nStarts, stopHandlers, nStops,
                   nFragments, fresh, lastAppend, delivered>>
    /\ UNCHANGED <<apiKeys, lastTranslate, audioError, nFrames, lastMessage, wire>>

\* speak: audio.play() rejects; the promise is rejected and nothing else is set
PlayRejected(o) ==
    /\ o \in speakOps
    /\ o.phase = "playing"
    /\ speakOps' = speakOps \ {o}
    /\ UNCHANGED <<sourceText, translatedText, isRecording, lastSpoken, timers, isSpeaking,
                   nSpeaks, calls, nCalls, translationError, ttsError, isTranslating,
                   newestDelivered, sessionVars, nStarts,
                   stopHandlers, nStops, nFragments, fresh, lastAppend, delivered>>
    /\ UNCHANGED <<apiKeys, lastTranslate, audioError, nFrames, lastMessage, wire>>

\* -------------------------------------------------------------- debounce timer
\* the callback of a pending timeout tm armed by the text-to-speech effect
TimerFires(tm) ==
    /\ tm \in timers
    /\ LET valid == DebounceStillValid(tm, lastSpoken)
       IN  Commit(sourceText, translatedText, IF valid THEN TRUE ELSE isSpeaking,
                  isRecording, IF valid THEN tm.text ELSE lastSpoken, timers \ {tm},
                  IF valid THEN <<Request(tm.portion, "timer")>> ELSE <<>>,
                  calls, speakOps, ttsError, isTranslating)
    /\ UNCHANGED <<newestDelivered, sessionVars, nStarts, stopHandlers, nStops,
                   nFragments, fresh, lastAppend, delivered>>
    /\ UNCHANGED <<apiKeys, lastTranslate, audioError, nFrames, lastMessage, wire>>

\* ------------------------------------------------------------ specifications
Next ==
    \/ nStarts < MaxStarts /\ StartClick
    \/ nStops < MaxStops /\ StopClick
    \/ \E h \in stopHandlers : StopResume(h)
    \/ \E s \in 1..MaxStarts : GetUserMediaOk(s)
    \/ \E s \in 1..MaxStarts : GetUserMediaFail(s)
    \/ \E s \in 1..MaxStarts : SessionRequestOk(s)
    \/ \E s \in 1..MaxStarts : SessionRequestFail(s)
    \/ \E s \in 1..MaxStarts : AddModuleOk(s)
    \/ \E s \in 1..MaxStarts : WsOpen(s)
    \/ \E s \in 1..MaxStarts, code \in CodedCloses : WsClosed(s, code)
    \/ \E s \in 1..MaxStarts, text \in Fragments :
           nFragments < MaxFragments /\ WsFinal(s, text)
    \/ \E c \in calls, translated \in Renderings : TranslationOk(c, translated)
    \/ \E c \in calls, message \in TranslationFailures : TranslationFail(c, message)
    \/ \E o \in speakOps : SynthesisOk(o)
    \/ \E o \in speakOps : SynthesisFail(o)
    \/ \E o \in speakOps : PlaybackFinished(o)
    \/ \E o \in speakOps : PlayRejected(o)
    \/ \E tm \in timers : TimerFires(tm)

Spec == Init /\ [][Next]_vars

\* The accumulator alone: onTranscription applied to every sequence of
\* fragments over the alphabet, from the empty buffer.
OnTranscriptionCall(newTextChunk) ==
    /\ nFragments < MaxAppends
    /\ lastAppend' = [done |-> TRUE, prev |-> sourceText, chunk |-> newTextChunk]
    /\ OnTranscription(newTextChunk)
    /\ UNCHANGED <<newestDelivered, sessionVars, nStarts, stopHandlers, nStops>>
    /\ UNCHANGED <<apiKeys, lastTranslate, audioError, nFrames, lastMessage, wire>>

NextAccumulator == \E f \in StringsUpTo(MaxFragLen) : OnTranscriptionCall(f)

InitAccumulator == Init /\ apiKeys = Providers

SpecAccumulator == InitAccumulator /\ [][NextAccumulator]_vars

\* The coordinator during one recording session: from the state in which the
\* first recording is running (after StartClick, GetUserMediaOk,
\* SessionRequestOk, AddModuleOk and WsOpen) up to the stop toggles and what
\* follows them.
InitRecording ==
    /\ sourceText = <<>>
    /\ translatedText = <<>>
    /\ isRecording = TRUE
    /\ lastSpoken = <<>>
    /\ timers = {}
    /\ isSpeaking = FALSE
    /\ speakOps = {}
    /\ nSpeaks = 0
    /\ calls = {}
    /\ nCalls = 0
    /\ newestDelivered = 0
    /\ sessions = [s \in 1..MaxStarts |->
                      IF s = 1 THEN [pc |-> "done", stream |-> TRUE, ws |-> "open",
                                     graph |-> "live", stopped |-> FALSE, code |-> 0]
                      ELSE NoSession]
    /\ nStarts = 1
    /\ streamRef = 1
    /\ wsRef = 1
    /\ audioProcessorRef = 1
    /\ isConnected = TRUE
    /\ stopHandlers = {}
    /\ nStops = 0
    /\ nFragments = 0
    /\ fresh = TRUE
    /\ lastAppend = NoAppend
    /\ apiKeys \in {keys \in SUBSET Providers : "gladia" \in keys}
    /\ translationError = NoError
    /\ ttsError = NoError
    /\ audioError = NoError
    /\ isTranslating = FALSE
    /\ nFrames = 0
    /\ wire = <<>>
    /\ lastMessage = NoMessage
    /\ lastTranslate = NoCall
    /\ delivered = <<>>

NextCoordinator ==
    \/ nStops < CoordStops /\ StopClick
    \/ \E h \in stopHandlers : StopResume(h)
    \/ \E text \in Fragments : nFragments < CoordFragments /\ WsFinal(1, text)
    \/ \E c \in calls, translated \in Renderings : TranslationOk(c, translated)
    \/ \E c \in calls, message \in TranslationFailures : TranslationFail(c, message)
    \/ \E o \in speakOps : SynthesisOk(o)
    \/ \E o \in speakOps : SynthesisFail(o)
    \/ \E o \in speakOps : PlaybackFinished(o)
    \/ \E o \in speakOps : PlayRejected(o)
    \/ \E tm \in timers : TimerFires(tm)

SpecCoordinator == InitRecording /\ [][NextCoordinator]_vars

\* The coordinator with what the platform guarantees about pending work: a
\* synthesis request is answered (ok or not), a playback ends, fails or is
\* rejected, a translation request is answered, audioContext.close() settles
\* and a pending timeout runs.
NextSpeech ==
    \/ nStops < SpeechStops /\ StopClick
    \/ \E h \in stopHandlers : StopResume(h)
    \/ \E text \in Fragments : nFragments < SpeechFragments /\ WsFinal(1, text)
    \/ \E c \in calls, translated \in Renderings : TranslationOk(c, translated)
    \/ \E c \in calls, message \in TranslationFailures : TranslationFail(c, message)
    \/ \E o \in speakOps : SynthesisOk(o)
    \/ \E o \in speakOps : SynthesisFail(o)
    \/ \E o \in speakOps : PlaybackFinished(o)
    \/ \E o \in speakOps : PlayRejected(o)
    \/ \E tm \in timers : TimerFires(tm)

FairSpeech ==
    /\ WF_vars(\E o \in speakOps : SynthesisOk(o) \/ SynthesisFail(o))
    /\ WF_vars(\E o \in speakOps : PlaybackFinished(o) \/ PlayRejected(o))
    /\ WF_vars(\E c \in calls :
                   \/ \E message \in TranslationFailures : TranslationFail(c, message)
                   \/ \E translated \in Renderings : TranslationOk(c, translated))
    /\ WF_vars(\E h \in stopHandlers : StopResume(h))
    /\ WF_vars(\E tm \in timers : TimerFires(tm))

SpecSpeech == InitRecording /\ [][NextSpeech]_vars /\ FairSpeech

\* The end of a recording: as SpecSpeech, with the final transcripts arriving
\* before the stop toggle only (none arrives once the page was asked to stop).
NextFlush ==
    \/ nStops < FlushStops /\ StopClick
    \/ \E h \in stopHandlers : StopResume(h)
    \/ \E text \in Fragments :
           nFragments < FlushFragments /\ nStops = 0 /\ WsFinal(1, text)
    \/ \E c \in calls, translated \in Renderings : TranslationOk(c, translated)
    \/ \E c \in calls, message \in TranslationFailures : TranslationFail(c, message)
    \/ \E o \in speakOps : SynthesisOk(o)
    \/ \E o \in speakOps : SynthesisFail(o)
    \/ \E o \in speakOps : PlaybackFinished(o)
    \/ \E o \in speakOps : PlayRejected(o)
    \/ \E tm \in timers : TimerFires(tm)

SpecFlush == InitRecording /\ [][NextFlush]_vars /\ FairSpeech

\* One recording session with three final transcripts, so three translations,
\* and one stop toggle: enough for two speak() calls to overlap and for
\* translated text to arrive while both are in progress.
NextOverlap ==
    \/ nStops < OverlapStops /\ StopClick
    \/ \E h \in stopHandlers : StopResume(h)
    \/ \E text \in Fragments : nFragments < OverlapFragments /\ WsFinal(1, text)
    \/ \E c \in calls, translated \in Renderings : TranslationOk(c, translated)
    \/ \E c \in calls, message \in TranslationFailures : TranslationFail(c, message)
    \/ \E o \in speakOps : SynthesisOk(o)
    \/ \E o \in speakOps : SynthesisFail(o)
    \/ \E o \in speakOps : PlaybackFinished(o)
    \/ \E o \in speakOps : PlayRejected(o)
    \/ \E tm \in timers : TimerFires(tm)

SpecOverlap == InitRecording /\ [][NextOverlap]_vars

\* One transcription session: the first start toggle with everything
\* startRecording awaits, the sample blocks of the worklet, the messages of
\* the provider and the stop toggle (a second start toggle is part of Spec).
\* Translation requests stay pending.
NextSession ==
    \/ nStarts = 0 /\ StartClick
    \/ nStops < SessionStops /\ StopClick
    \/ \E h \in stopHandlers : StopResume(h)
    \/ \E s \in 1..MaxStarts : GetUserMediaOk(s)
    \/ \E s \in 1..MaxStarts : GetUserMediaFail(s)
    \/ \E s \in 1..MaxStarts : SessionRequestOk(s)
    \/ \E s \in 1..MaxStarts : SessionRequestFail(s)
    \/ \E s \in 1..MaxStarts : AddModuleOk(s)
    \/ \E s \in 1..MaxStarts : AddModuleFail(s)
    \/ \E s \in 1..MaxStarts : WsOpen(s)
    \/ \E s \in 1..MaxStarts, code \in CloseCodes : WsClosed(s, code)
    \/ \E s \in 1..MaxStarts : nFrames < MaxFrames /\ AudioFrame(s)
    \/ \E s \in 1..MaxStarts, message \in Messages :
           (IsMerged(message) => nFragments < SessionFinals) /\ WsMessage(s, message)

SpecSession == Init /\ [][NextSession]_vars

\* A recording that is stopped and started again: from the state in which the
\* first recording is running, the stop toggle, the next start toggles with
\* everything startRecording awaits, and the messages and close events of
\* every connection, the one of the stopped session included.  Translation
\* requests stay pending.
NextRestart ==
    \/ nStarts < MaxStarts /\ StartClick
    \/ nStops < RestartStops /\ StopClick
    \/ \E h \in stopHandlers : StopResume(h)
    \/ \E s \in 1..MaxStarts : GetUserMediaOk(s)
    \/ \E s \in 1..MaxStarts : GetUserMediaFail(s)
    \/ \E s \in 1..MaxStarts : SessionRequestOk(s)
    \/ \E s \in 1..MaxStarts : SessionRequestFail(s)
    \/ \E s \in 1..MaxStarts : AddModuleOk(s)
    \/ \E s \in 1..MaxStarts : AddModuleFail(s)
    \/ \E s \in 1..MaxStarts : WsOpen(s)
    \/ \E s \in 1..MaxStarts, code \in CloseCodes : WsClosed(s, code)
    \/ \E s \in 1..MaxStarts, message \in Messages :
           (IsMerged(message) => nFragments < RestartFinals) /\ WsMessage(s, message)

SpecRestart == InitRecording /\ [][NextRestart]_vars

\* The keys and the record button: the settings dialog saved at any moment
\* with any set of keys, the first start toggle with what startRecording
\* awaits, and the final transcripts of its connection.  Translation requests
\* stay pending.
NextSettings ==
    \/ \E keys \in SUBSET Providers : keys # apiKeys /\ SettingsSave(keys)
    \/ nStarts = 0 /\ StartClick
    \/ \E s \in 1..MaxStarts : GetUserMediaOk(s)
    \/ \E s \in 1..MaxStarts : SessionRequestOk(s)
    \/ \E s \in 1..MaxStarts : AddModuleOk(s)
    \/ \E s \in 1..MaxStarts : WsOpen(s)
    \/ \E s \in 1..MaxStarts, text \in Fragments :
           nFragments < SettingsFragments /\ WsFinal(s, text)

SpecSettings == Init /\ [][NextSettings]_vars

\* The translation hook alone: translateText called with every text over the
\* alphabet, for every set of configured keys, and the answers to the requests
\* it sends (delivered to setTranslatedText as the effect does).
NextTranslation ==
    \/ \E text \in StringsUpTo(MaxTextLen) :
           lastTranslate.n < MaxTranslateCalls /\ TranslateTextCall(text)
    \/ \E c \in calls, translated \in Renderings : TranslationOk(c, translated)
    \/ \E c \in calls, message \in TranslationFailures : TranslationFail(c, message)

SpecTranslation == Init /\ [][NextTranslation]_vars

\* The scenario "Hola" -> "Hola mundo" -> "Hola mundo.": one recording session
\* in which the translator answers the k-th call with the k-th text and the
\* answers arrive in the order of the calls.  The texts are written word by
\* word: nothing is spoken before the last one, so every substring taken in
\* the scenario starts at an offset between words.  The three keys are
\* configured.
HolaUpdates ==
    << <<"Hola">>, <<"Hola", " ", "mundo">>, <<"Hola", " ", "mundo", ".">> >>

NextHola ==
    \/ \E text \in Fragments : nFragments < Len(HolaUpdates) /\ WsFinal(1, text)
    \/ \E c \in calls : c.id = newestDelivered + 1 /\ TranslationOk(c, HolaUpdates[c.id])
    \/ \E o \in speakOps : SynthesisOk(o)
    \/ \E o \in speakOps : SynthesisFail(o)
    \/ \E o \in speakOps : PlaybackFinished(o)
    \/ \E o \in speakOps : PlayRejected(o)
    \/ \E tm \in timers : TimerFires(tm)

InitHola == InitRecording /\ apiKeys = Providers

SpecHola == InitHola /\ [][NextHola]_vars

\* ------------------------------------------------------------------- claims
\* the speak() calls that are synthesising or playing
ActiveSpeaks == Cardinality(speakOps)

\* C1: in every reachable state at most one synthesis+playback operation is
\* active.
C1_AtMostOneSpeakActive == ActiveSpeaks <= 1

\* C2: a speak request issued while a synthesis+playback is active is rejected
\* by speak: while an operation is active no step starts another one.
C2_SpeakWhileActiveRejected ==
    [][speakOps # {} => \A o \in speakOps' : \E p \in speakOps : p.id = o.id]_vars

\* C3: the result of a translation call that arrives after the result of a
\* call issued later leaves translatedText as it is.
C3_StaleResultIgnored ==
    [][\A c \in calls : (c \notin calls' /\ c.id < newestDelivered)
                            => translatedText' = translatedText]_vars

\* C4: within one recording session the SpokenWatermark never decreases: every
\* step other than a start toggle leaves it equal or larger.
C4_WatermarkMonotone ==
    [][nStarts' = nStarts => Len(lastSpoken') >= SpokenWatermark]_vars

\* two dispatches in one session, the second one up to the longest translation
C4_Witness == nSpeaks >= 2 /\ SpokenWatermark = 4 /\ nStarts = 1

\* C5: in every reachable state 0 <= SpokenWatermark <= length(translatedText).
C5_WatermarkWithinBuffer ==
    0 <= SpokenWatermark /\ SpokenWatermark <= Len(translatedText)

\* C6: after a stop and a new start, sourceText, translatedText and the
\* SpokenWatermark are empty until a final fragment arrives.
C6_RestartYieldsEmptyState ==
    (fresh /\ nStops >= 1)
        => (sourceText = <<>> /\ translatedText = <<>> /\ SpokenWatermark = 0)

\* the sessions that hold a live microphone stream, an audio graph that is not
\* closed, or a connection that is connecting or open
LiveSessions ==
    {s \in 1..MaxStarts :
        \/ sessions[s].stream
        \/ sessions[s].ws \in {"connecting", "open"}
        \/ sessions[s].graph \in {"context", "live", "closing"}}

\* C7: at most one TranscriptionSession (stream, graph, connection) exists at
\* any time.
C7_AtMostOneSession == Cardinality(LiveSessions) <= 1

\* The last append of the accumulator: the buffer before it (b), the fragment
\* (f) and the buffer after it (sourceText).
LastChar(s) == s[Len(s)]

\* C8 as stated: appending f to b yields b + " " + f unless b is empty, f is
\* empty, b ends with whitespace, f begins with whitespace, or trimmed b ends
\* with '.', '?' or '!'; then it yields b + f.
C8_SpacingRuleWhitespace ==
    lastAppend.done =>
        LET b == lastAppend.prev
            f == lastAppend.chunk
            exempt == \/ b = <<>>
                      \/ f = <<>>
                      \/ LastChar(b) \in Whitespace
                      \/ Head(f) \in Whitespace
                      \/ (Trim(b) # <<>> /\ LastChar(Trim(b)) \in Punctuation)
        IN  sourceText = IF exempt THEN b \o f ELSE b \o <<Space>> \o f

\* C8 as amended: the two tests on the ends are for the space character
\* (U+0020), not for any whitespace; a buffer that ends with a tab or a line
\* break, or a fragment that begins with one, still gets the space.
C8_SpacingRuleSpace ==
    lastAppend.done =>
        LET b == lastAppend.prev
            f == lastAppend.chunk
            exempt == \/ b = <<>>
                      \/ f = <<>>
                      \/ LastChar(b) = Space
                      \/ Head(f) = Space
                      \/ (Trim(b) # <<>> /\ LastChar(Trim(b)) \in Punctuation)
        IN  sourceText = IF exempt THEN b \o f ELSE b \o <<Space>> \o f

\* a buffer that ends with a tab got the space, and the fragment after it
C8_Witness ==
    /\ lastAppend.done
    /\ lastAppend.prev # <<>>
    /\ LastChar(lastAppend.prev) = Tab
    /\ lastAppend.chunk # <<>>
    /\ sourceText = lastAppend.prev \o <<Space>> \o lastAppend.chunk

\* C9: no double space at a fragment boundary: the last character of the
\* buffer before the append and the character after it are never both spaces,
\* and an inserted space is never next to another space.
C9_NoDoubleSpaceAtBoundary ==
    (lastAppend.done /\ lastAppend.prev # <<>> /\ lastAppend.chunk # <<>>) =>
        LET k == Len(lastAppend.prev)
            inserted == Len(sourceText) = k + Len(lastAppend.chunk) + 1
        IN  /\ ~(sourceText[k] = Space /\ sourceText[k + 1] = Space)
            /\ inserted => sourceText[k + 2] # Space

\* C10: no missing separator at a fragment boundary: between the last
\* character of the buffer and the first character of a non-empty fragment
\* there is whitespace (the buffer ends with it, the fragment begins with it,
\* or a space was inserted).
C10_NoMissingSeparator ==
    (lastAppend.done /\ lastAppend.prev # <<>> /\ lastAppend.chunk # <<>>) =>
        \/ LastChar(lastAppend.prev) \in Whitespace
        \/ Head(lastAppend.chunk) \in Whitespace
        \/ sourceText = lastAppend.prev \o <<Space>> \o lastAppend.chunk

\* the speak() calls made in the step: their numbers are above nSpeaks
NewSpeaks == {o \in speakOps' : o.id > nSpeaks}

\* C11: at most one debounce timeout is pending and it is the one
\* ttsDebounceTimerRef holds (the one armed last); a speak() call made by a
\* timeout callback is made by that timeout, for the portion it was armed
\* with, and that portion is still the unspoken portion of translatedText.
C11_DebounceSupersession ==
    /\ [](Cardinality(timers) <= 1 /\ \A tm \in timers : tm.held)
    /\ [][\A o \in NewSpeaks : o.by = "timer" =>
              \E tm \in timers : /\ tm.held
                                 /\ tm \notin timers'
                                 /\ o.text = tm.portion
                                 /\ NewPortion(translatedText, lastSpoken) = tm.portion]_vars

\* the second translation superseded the timeout of the first one, and the
\* timeout armed for it dispatched the whole text
C11_Witness ==
    /\ newestDelivered = 2
    /\ nCalls = 2
    /\ calls = {}
    /\ translatedText = <<"b", " ", "b">>
    /\ lastSpoken = translatedText
    /\ \E o \in speakOps : o.by = "timer" /\ o.text = translatedText
    /\ nSpeaks = 1

\* C12: in the scenario, as long as no timeout has dispatched (nothing was
\* spoken so far), the updates to "Hola" and to "Hola mundo" dispatch nothing,
\* and the update to "Hola mundo." makes exactly one speak() call, whose text
\* is "Hola mundo.".
C12_HolaScenario ==
    [][(newestDelivered' = newestDelivered + 1 /\ nSpeaks = 0 /\ isRecording /\ ~isSpeaking)
          => IF newestDelivered' < Len(HolaUpdates)
             THEN nSpeaks' = 0 /\ speakOps' = {}
             ELSE /\ nSpeaks' = 1
                  /\ \E o \in speakOps' : /\ speakOps' = {o}
                                          /\ o.text = HolaUpdates[Len(HolaUpdates)]]_vars

\* the three updates arrived and the one call so far is the effect's, for
\* "Hola mundo."
C12_Witness ==
    /\ newestDelivered = Len(HolaUpdates)
    /\ translatedText = HolaUpdates[Len(HolaUpdates)]
    /\ lastSpoken = translatedText
    /\ nSpeaks = 1
    /\ \E o \in speakOps : o.by = "effect" /\ o.text = translatedText

\* C13: when recording is stopped while a timeout is pending for unspoken
\* text (so nothing is speaking), the stop makes exactly one speak() call (the
\* stop branch's, or the effect's for the render with isRecording false), for
\* the whole unspoken portion of translatedText, and no timeout is left; and
\* a timeout that was pending when the stop toggle was made (it holds the
\* translatedText of the render whose handler is waiting) makes no speak() call.
C13_StopFlushesRemainder ==
    /\ [][(isRecording /\ ~isRecording' /\ timers # {})
              => /\ timers' = {}
                 /\ \E o \in NewSpeaks :
                        /\ NewSpeaks = {o}
                        /\ o.by \in {"stop", "effect"}
                        /\ o.text = NewPortion(translatedText, lastSpoken)]_vars
    /\ [][\A o \in NewSpeaks : o.by = "timer" =>
              ~\E h \in stopHandlers, tm \in timers :
                    tm \notin timers' /\ tm.text = h.text /\ ~h.speaking]_vars

\* C14: whenever the isSpeaking flag is set it is cleared later.
C14_SpeakingEventuallyCleared == isSpeaking ~> ~isSpeaking

\* C15: a step that invokes translation (sourceText changes to a non-blank
\* text) while no Azure key is configured sets the translation error state to
\* the missing-key message, sends no request, and leaves translatedText and
\* the SpokenWatermark unchanged; sourceText is the buffer the invocation was
\* made for (the previous buffer with the fragment appended).
C15_TranslationWithoutKey ==
    [][("azure" \notin apiKeys /\ sourceText' # sourceText /\ Trim(sourceText') # <<>>)
          => /\ translationError' = AzureKeyMissing
             /\ calls' = calls
             /\ nCalls' = nCalls
             /\ translatedText' = translatedText
             /\ lastSpoken' = lastSpoken
             /\ \E f \in Fragments : sourceText' = AppendFragment(sourceText, f)]_vars

\* two fragments were merged without an Azure key: no request was sent, the
\* error state is set and nothing was translated or spoken
C15_Witness ==
    /\ "azure" \notin apiKeys
    /\ nFragments = 2
    /\ Trim(sourceText) # <<>>
    /\ translationError = AzureKeyMissing
    /\ nCalls = 0
    /\ translatedText = <<>>
    /\ SpokenWatermark = 0

\* C16: a step in which speak() is called while no ElevenLabs key is
\* configured sets the synthesis error state to the missing-key message,
\* sends no request, and leaves the SpokenWatermark and the isSpeaking flag
\* as they were (translatedText is not touched by a dispatch).
C16_SpeakWithoutKey ==
    [][("elevenlabs" \notin apiKeys /\ nSpeaks' > nSpeaks)
          => /\ ttsError' = ElevenLabsKeyMissing
             /\ speakOps' = speakOps
             /\ lastSpoken' = lastSpoken
             /\ isSpeaking' = isSpeaking]_vars

\* C17: a session for which stopRecording has returned holds no resource: its
\* connection is closing or closed (so it is never open afterwards), its
\* microphone stream is stopped and its audio graph is closed.
C17_StopReleasesSession ==
    \A s \in 1..MaxStarts :
        sessions[s].stopped =>
            /\ sessions[s].ws \in {"closing", "closed"}
            /\ ~sessions[s].stream
            /\ sessions[s].graph = "closed"

\* C18: the step that releases the microphone stream and the connection finds
\* no timeout pending and does not make the stop branch's speak() call (both
\* were done before), and while a stop toggle is waiting for its release no
\* timeout is pending.
C18_FlushBeforeRelease ==
    /\ [][(streamRef # 0 /\ streamRef' = 0)
              => (timers = {} /\ \A o \in NewSpeaks : o.by # "stop")]_vars
    /\ [](stopHandlers # {} => timers = {})

\* the sample blocks on the wire
FramesSent == {i \in 1..Len(wire) : wire[i].kind = "frame"}

\* C19: every sample block on the wire was produced while its connection was
\* open; what a step puts on the wire is put after what was there, and a
\* block it sends is the block produced in that step (no block is sent
\* later than it was produced).
C19_FramesOnlyWhenOpen ==
    /\ [](\A i \in FramesSent : wire[i].readyState = "open")
    /\ [][/\ Len(wire') >= Len(wire)
          /\ SubSeq(wire', 1, Len(wire)) = wire
          /\ \A i \in (Len(wire) + 1)..Len(wire') :
                 wire'[i].kind = "frame" =>
                     (nFrames' = nFrames + 1 /\ wire'[i].id = nFrames')]_vars

\* the first block was produced before the connection opened and is not on
\* the wire; the second one was produced after and is
C19_Witness ==
    /\ nFrames = 2
    /\ \E s \in 1..MaxStarts :
          /\ sessions[s].ws = "open"
          /\ wire = <<[session |-> s, kind |-> "frame", id |-> 2, readyState |-> "open"]>>

\* C20: handling a message that is not a transcript flagged final leaves
\* sourceText, translatedText and the SpokenWatermark unchanged and sends no
\* translation request; and whenever sourceText grows, the message handled
\* is a transcript with is_final set and a non-empty text, which is what was
\* appended.
C20_OnlyFinalMerged ==
    /\ [][(lastMessage' # lastMessage
              /\ ~(lastMessage'.type = "transcript" /\ lastMessage'.is_final))
             => /\ sourceText' = sourceText
                /\ translatedText' = translatedText
                /\ lastSpoken' = lastSpoken
                /\ calls' = calls
                /\ nCalls' = nCalls]_vars
    /\ [][(sourceText' # sourceText /\ nStarts' = nStarts)
             => /\ lastMessage'.type = "transcript"
                /\ lastMessage'.is_final
                /\ lastMessage'.text # <<>>
                /\ sourceText' = AppendFragment(sourceText, lastMessage'.text)]_vars

\* a final transcript was merged and translated, and a transcript that is not
\* final, with a text, was handled after it
C20_Witness ==
    /\ lastMessage.type = "transcript"
    /\ ~lastMessage.is_final
    /\ lastMessage.text # <<>>
    /\ nFragments = 1
    /\ sourceText \in Fragments
    /\ nCalls = 1

\* C21: handling an error event of the provider sets the error state of the
\* session to the message of the event (or to "Transcription error") and
\* changes nothing else: the connection stays as it was, nothing is sent or
\* released, the text buffers and the watermark are unchanged; and a sample
\* block produced after it on an open connection is still sent.
C21_ErrorEventSetsErrorOnly ==
    /\ [][(lastMessage' # lastMessage /\ lastMessage'.type = "error")
             => /\ audioError' = IF lastMessage'.message # "" THEN lastMessage'.message
                                 ELSE "Transcription error"
                /\ UNCHANGED <<sessions, streamRef, wsRef, audioProcessorRef, isConnected,
                               wire, nFrames, sourceText, translatedText, lastSpoken,
                               isRecording, calls, nCalls, speakOps, nSpeaks, timers>>]_vars
    /\ [][(lastMessage.type = "error" /\ nFrames' = nFrames + 1
              /\ \A s \in 1..MaxStarts :
                     sessions[s].graph \in {"live", "closing"} => sessions[s].ws = "open")
             => /\ Len(wire') = Len(wire) + 1
                /\ wire'[Len(wire')].kind = "frame"]_vars

\* after a merged transcript and a sample block, an error event without a
\* message was handled: the connection is open, the block after it was sent
C21_Witness ==
    /\ lastMessage.type = "error"
    /\ audioError = TranscriptionError
    /\ isConnected
    /\ sourceText \in Fragments
    /\ nFrames = 2
    /\ Len(wire) = 2
    /\ \E s \in 1..MaxStarts : sessions[s].ws = "open" /\ sessions[s].graph = "live"

\* C22: the step in which a connection is closed marks the session not
\* connected and, when the close code is not 1000, sets the error state of
\* the session to the connectivity error; with the code 1000 the error state
\* is left as it was.  A closed connection stays closed, and a connection is
\* only created by startRecording for a start toggle (after its session
\* request), so there are never more connections than start toggles.
C22_CloseReportedNoReconnect ==
    /\ [][\A s \in 1..MaxStarts :
              (sessions[s].ws # "closed" /\ sessions'[s].ws = "closed")
                 => /\ ~isConnected'
                    /\ IF sessions'[s].code # 1000
                       THEN audioError' = "Connection closed unexpectedly"
                       ELSE audioError' = audioError]_vars
    /\ [][\A s \in 1..MaxStarts :
              /\ sessions[s].ws = "closed" => sessions'[s].ws = "closed"
              /\ (sessions[s].ws = "none" /\ sessions'[s].ws # "none")
                    => (s <= nStarts /\ sessions[s].pc = "fetch")]_vars
    /\ [](Cardinality({s \in 1..MaxStarts : sessions[s].ws # "none"}) <= nStarts)

\* the connection of the running recording failed: the error is set, the page
\* is still recording and no other connection exists
C22_Witness ==
    /\ isRecording
    /\ ~isConnected
    /\ audioError = ConnectionClosed
    /\ sessions[1].ws = "closed"
    /\ sessions[1].code = AbnormalClosure
    /\ sessions[1].graph = "live"
    /\ \A s \in 2..MaxStarts : sessions[s].ws = "none"

C24_BlankTranslateIsNoop ==
    [][(lastTranslate'.n = lastTranslate.n + 1 /\ Trim(lastTranslate'.text) = <<>>)
          => /\ calls' = calls
             /\ nCalls' = nCalls
             /\ isTranslating' = isTranslating
             /\ translationError' = translationError
             /\ translatedText' = translatedText]_vars

\* the second call was made with a whitespace-only text while the request of
\* the first one was pending: the flag is still set and nothing was sent
C24_Witness ==
    /\ lastTranslate.n = 2
    /\ lastTranslate.text # <<>>
    /\ Trim(lastTranslate.text) = <<>>
    /\ isTranslating
    /\ nCalls = 1
    /\ Cardinality(calls) = 1

\* C25: a translation call that fails sets the translation error state and
\* leaves translatedText as it was: the step in which a pending call ends
\* without delivering a result (the call is newer than every delivered one
\* and is not recorded as delivered) sets one of the two failure messages;
\* the step that calls translation without an Azure key sets the missing-key
\* message; and every step that sets a new error message leaves translatedText
\* unchanged.
C25_FailedTranslationKeepsText ==
    /\ [][\A c \in calls :
              (c \notin calls' /\ c.id > newestDelivered /\ newestDelivered' = newestDelivered)
                 => /\ translationError' \in {"Translation failed",
                                              "Invalid translation response format"}
                    /\ translatedText' = translatedText]_vars
    /\ [][("azure" \notin apiKeys /\ sourceText' # sourceText /\ Trim(sourceText') # <<>>)
             => /\ translationError' = "Azure API key not configured"
                /\ translatedText' = translatedText]_vars
    /\ [][(translationError' # translationError /\ translationError' # NoError)
             => translatedText' = translatedText]_vars

\* the first call was answered with a text and the second one failed: the
\* error is set and the text of the first answer is still there
C25_Witness ==
    /\ nCalls = 2
    /\ calls = {}
    /\ newestDelivered = 1
    /\ translationError = InvalidResponseFormat
    /\ translatedText \in Renderings
    /\ ~isTranslating

\* C26: handling a message that cannot be parsed changes nothing: the
\* connection, the refs, the connected flag, the error state, the wire, the
\* text buffers, the watermark and the translation requests are as before;
\* and a final transcript with a text handled right after it is appended to
\* sourceText as usual.
C26_MalformedSkipped ==
    /\ [][(lastMessage' # lastMessage /\ lastMessage'.type = "malformed")
             => UNCHANGED <<sessions, streamRef, wsRef, audioProcessorRef, isConnected,
                            audioError, wire, sourceText, translatedText, lastSpoken,
                            isRecording, calls, nCalls, nFragments>>]_vars
    /\ [][(lastMessage.type = "malformed" /\ lastMessage' # lastMessage
              /\ lastMessage'.type = "transcript" /\ lastMessage'.is_final
              /\ lastMessage'.text # <<>>)
             => /\ sourceText' = AppendFragment(sourceText, lastMessage'.text)
                /\ nFragments' = nFragments + 1]_vars

\* a message that cannot be parsed was handled after a merged transcript: the
\* connection is open, no error is set and the buffer is as the transcript
\* left it
C26_Witness ==
    /\ lastMessage = Malformed
    /\ isConnected
    /\ audioError = NoError
    /\ nFragments = 1
    /\ sourceText \in Fragments
    /\ \E s \in 1..MaxStarts : sessions[s].ws = "open"

\* C27: whenever the Gladia key is configured and the page is not recording,
\* the start toggle can be made (whether or not the Azure and the ElevenLabs
\* keys are configured); and a final transcript that arrives while one of
\* those two keys is missing is appended to sourceText.
C27_MissingKeyBlocksOnlyItsProvider ==
    /\ [](("gladia" \in apiKeys /\ ~isRecording) => ENABLED StartClick)
    /\ [][(nFragments' = nFragments + 1 /\ "gladia" \in apiKeys /\ apiKeys # Providers)
             => \E f \in Fragments : sourceText' = AppendFragment(sourceText, f)]_vars

\* C28: once recording has stopped, the SpokenWatermark eventually equals the
\* length of translatedText and stays equal (every synthesis request is
\* answered, every playback ends, every translation request is answered and
\* the fragments come to an end).
C28_RemainderEventuallyFlushed ==
    [](~isRecording => <>[](SpokenWatermark = Len(translatedText)))

\* C29: a step that changes translatedText while nothing is speaking, to a
\* text whose trimmed unspoken portion is not empty and ends with '.', '?' or
\* '!', makes exactly one speak() call in that step, for that portion (with an
\* ElevenLabs key: one new synthesis request, not yet playing), leaves no
\* timeout pending, sets isSpeaking and sets the ref to the whole
\* translatedText, so the SpokenWatermark is its full length.
C29_PunctuationDispatchesAtOnce ==
    [][LET portion == NewPortion(translatedText', lastSpoken)
       IN  (/\ translatedText' # translatedText
            /\ ~isSpeaking
            /\ portion # <<>>
            /\ portion[Len(portion)] \in {".", "?", "!"})
              => /\ nSpeaks' = nSpeaks + 1
                 /\ timers' = {}
                 /\ isSpeaking'
                 /\ lastSpoken' = translatedText'
                 /\ Len(lastSpoken') = Len(translatedText')
                 /\ "elevenlabs" \in apiKeys
                       => \E o \in NewSpeaks : /\ NewSpeaks = {o}
                                               /\ speakOps' = speakOps \cup {o}
                                               /\ o.text = portion
                                               /\ o.by = "effect"
                                               /\ o.phase = "synth"]_vars

\* the second translation ends with a full stop and was dispatched whole by
\* the effect; its synthesis is pending, no timeout is, and the watermark is
\* the length of the text
C29_Witness ==
    /\ isRecording
    /\ newestDelivered = 2
    /\ translatedText = <<"b", " ", "b", ".">>
    /\ SpokenWatermark = 4
    /\ timers = {}
    /\ isSpeaking
    /\ speakOps = {[id |-> 1, text |-> translatedText, by |-> "effect", phase |-> "synth"]}

\* C30: while recording, a step in which the text-to-speech effect finds
\* nothing speaking and a non-empty unspoken portion without terminal
\* punctuation (translatedText changed, or a speech ended) makes no speak()
\* call and leaves the ref as it was, with exactly one timeout pending, armed
\* for that portion.  A speak() call for a text without terminal punctuation
\* that leaves the page recording is made by a timeout callback, and a
\* timeout callback makes one only while nothing is speaking and for the
\* portion it was armed with, which is still the unspoken portion.  A step
\* that only removes a timeout (no call, same translatedText, isSpeaking and
\* isRecording) changes nothing else of the coordinator.
C30_DebounceBranch ==
    /\ [][LET portion == NewPortion(translatedText', lastSpoken)
          IN  (/\ translatedText' # translatedText \/ (isSpeaking /\ ~isSpeaking')
               /\ translatedText' # translatedText => ~isSpeaking
               /\ isRecording /\ isRecording'
               /\ portion # <<>>
               /\ portion[Len(portion)] \notin {".", "?", "!"})
                 => /\ nSpeaks' = nSpeaks
                    /\ NewSpeaks = {}
                    /\ lastSpoken' = lastSpoken
                    /\ timers' = {[portion |-> portion, text |-> translatedText',
                                   speaking |-> FALSE, held |-> TRUE]}]_vars
    /\ [][\A o \in NewSpeaks :
              /\ (isRecording' /\ o.text[Len(o.text)] \notin {".", "?", "!"})
                    => o.by = "timer"
              /\ o.by = "timer"
                    => /\ ~isSpeaking
                       /\ \E tm \in timers : /\ tm \notin timers'
                                             /\ tm.portion = o.text
                                             /\ NewPortion(translatedText, lastSpoken) = o.text]_vars
    /\ [][(/\ timers' # timers
           /\ nSpeaks' = nSpeaks
           /\ translatedText' = translatedText
           /\ isSpeaking' = isSpeaking
           /\ isRecording' = isRecording)
             => UNCHANGED <<lastSpoken, speakOps, ttsError, sourceText, calls>>]_vars

\* the timeout armed for the first translation, which has no terminal
\* punctuation, fired while recording and dispatched it; it is playing
C30_Witness ==
    /\ isRecording
    /\ newestDelivered = 1
    /\ translatedText = <<"b">>
    /\ lastSpoken = <<"b">>
    /\ timers = {}
    /\ speakOps = {[id |-> 1, text |-> <<"b">>, by |-> "timer", phase |-> "playing"]}

\* a speak() call that is in progress before the step and after it
StaysActive(o) == \E p \in speakOps' : p.id = o.id

\* C31: in a step during which a synthesis+playback stays active, the
\* text-to-speech effect makes no speak() call, and a change of translatedText
\* in such a step leaves the SpokenWatermark as it was; and in a step in which
\* a speak() call ends and clears the isSpeaking flag, the effect evaluates the
\* unspoken portion of translatedText again: a non-empty portion is handed to
\* speak() (the ref is set to the whole text) or, while recording and without
\* terminal punctuation, gets a timeout armed for it.
C31_NoDispatchWhileActive ==
    /\ [][(\E o \in speakOps : StaysActive(o))
             => /\ \A o \in NewSpeaks : o.by # "effect"
                /\ translatedText' # translatedText
                      => Len(lastSpoken') = SpokenWatermark]_vars
    /\ [][LET portion == NewPortion(translatedText, lastSpoken)
          IN  (/\ isSpeaking
               /\ \E o \in speakOps : ~StaysActive(o)
               /\ ~isSpeaking' \/ nSpeaks' > nSpeaks
               /\ portion # <<>>)
                 => \/ /\ nSpeaks' = nSpeaks + 1
                       /\ lastSpoken' = translatedText
                       /\ \E o \in NewSpeaks : o.by = "effect" /\ o.text = portion
                    \/ /\ isRecording
                       /\ nSpeaks' = nSpeaks
                       /\ \E tm \in timers' : tm.portion = portion /\ tm.held]_vars

\* s is a prefix of t
IsPrefix(s, t) == Len(s) <= Len(t) /\ SubSeq(t, 1, Len(s)) = s

\* the spacing rule applied to a buffer b and a fragment f: one space between
\* them unless b is empty, f is empty, b ends with a space, f begins with a
\* space, or trimmed b ends with '.', '?' or '!'
SpacingRule(b, f) ==
    LET exempt == \/ b = <<>>
                  \/ f = <<>>
                  \/ LastChar(b) = Space
                  \/ Head(f) = Space
                  \/ (Trim(b) # <<>> /\ LastChar(Trim(b)) \in Punctuation)
    IN  IF exempt THEN b \o f ELSE b \o <<Space>> \o f

\* the spacing-rule concatenation of a sequence of fragments, in their order
RECURSIVE Concatenation(_)
Concatenation(fragments) ==
    IF fragments = <<>> THEN <<>>
    ELSE SpacingRule(Concatenation(SubSeq(fragments, 1, Len(fragments) - 1)),
                     fragments[Len(fragments)])

\* C32: between two start toggles sourceText only grows at its end (its value
\* before a step is a prefix of its value after it); it is always the
\* spacing-rule concatenation of the final transcripts handled since the last
\* start toggle, in the order they were handled, each one once; and a step
\* that handles one appends that one fragment and nothing else.
C32_SourceTextAppendOnly ==
    /\ [][nStarts' = nStarts => IsPrefix(sourceText, sourceText')]_vars
    /\ [](sourceText = Concatenation(delivered))
    /\ [][sourceText' # sourceText /\ nStarts' = nStarts
             => /\ Len(delivered') = Len(delivered) + 1
                /\ SubSeq(delivered', 1, Len(delivered)) = delivered
                /\ sourceText' = SpacingRule(sourceText, delivered'[Len(delivered')])]_vars

\* two final transcripts were merged, "a" and then "a.", with the space the
\* rule puts between them, and the translation of the first one has arrived
C32_Witness ==
    /\ delivered = << <<"a">>, <<"a", ".">> >>
    /\ sourceText = <<"a", Space, "a", ".">>
    /\ newestDelivered = 1
    /\ isRecording

\* the sessions for which stopRecording has returned, and the connections that
\* can still deliver an event to their ws.onmessage
StoppedSessions == {s \in 1..MaxStarts : sessions[s].stopped}
Delivering == {s \in 1..MaxStarts : sessions[s].ws \in {"open", "closing"}}

\* C33: an event of the connection of a session for which stopRecording has
\* returned changes nothing of the current state.  A message handled while the
\* only connections that can deliver one belong to such sessions (a final
\* transcript, an error event, anything else) leaves sourceText, the error
\* state of the session and the connected flag as they were; and so does the
\* close event of such a connection, whether or not a start toggle was made
\* since.
C33_OldConnectionEventsIgnored ==
    /\ [][(/\ Delivering # {}
           /\ Delivering \subseteq StoppedSessions
           /\ nFragments' # nFragments \/ lastMessage' # lastMessage)
             => UNCHANGED <<sourceText, audioError, isConnected>>]_vars
    /\ [][\A s \in StoppedSessions :
              (sessions[s].ws # "closed" /\ sessions'[s].ws = "closed")
                 => UNCHANGED <<audioError, isConnected>>]_vars

\* C34: the connected flag is set only while wsRef holds a connection (a
\* current session exists) and that connection is open; and it is not set
\* once stopRecording has returned for the session started last (until the
\* next start toggle), whatever the state of the connection was when the stop
\* toggle was made.
C34_ConnectedOnlyWhileOpen ==
    /\ isConnected => (wsRef # 0 /\ sessions[wsRef].ws = "open")
    /\ (nStarts >= 1 /\ sessions[nStarts].stopped) => ~isConnected

\* C35: a startRecording call that has returned false holds no microphone
\* stream, no connection and no audio graph (it is not a live session),
\* whatever it had acquired when it failed (the session request, the creation
\* of the connection or the setup of the audio graph failing after
\* getUserMedia succeeded); and the step in which it fails leaves the page
\* not recording.
C35_FailedStartHoldsNothing ==
    /\ [](\A s \in 1..MaxStarts : sessions[s].pc = "failed" => s \notin LiveSessions)
    /\ [][\A s \in 1..MaxStarts :
              (sessions[s].pc # "failed" /\ sessions'[s].pc = "failed") => ~isRecording']_vars

\* C36: the text of every speak() call that starts a synthesis is non-empty
\* and is the trimmed part of translatedText from the SpokenWatermark on, as
\* both are when the call is made; the call moves the watermark forward (the
\* range it covers starts at the old watermark and is not empty), and within a
\* session no step moves the watermark back, a failing synthesis included, so
\* the ranges of successive calls do not overlap.
C36_DispatchedSlices ==
    /\ [][\A o \in NewSpeaks :
              /\ o.text # <<>>
              /\ o.text = Trim(SubSeq(translatedText', SpokenWatermark + 1,
                                      Len(translatedText')))
              /\ Len(lastSpoken') > SpokenWatermark]_vars
    /\ [][nStarts' = nStarts => Len(lastSpoken') >= SpokenWatermark]_vars

\* C37: whenever a timeout of the text-to-speech effect is pending, the page
\* is recording, nothing is speaking and the trimmed unspoken portion of
\* translatedText is non-empty and does not end with '.', '?' or '!' (it is
\* the portion the timeout was armed for); and in a state in which the page
\* is not recording or something is speaking, no step makes a speak() call
\* from a timeout callback.
C37_TimerPendingOnlyWhenDue ==
    /\ [](timers # {} =>
              LET portion == Trim(SubSeq(translatedText, SpokenWatermark + 1,
                                         Len(translatedText)))
              IN  /\ isRecording
                  /\ ~isSpeaking
                  /\ portion # <<>>
                  /\ portion[Len(portion)] \notin {".", "?", "!"}
                  /\ \A tm \in timers : tm.portion = portion)
    /\ [][(~isRecording \/ isSpeaking)
             => /\ \A o \in NewSpeaks : o.by # "timer"
                /\ timers' # {} => (isRecording' /\ ~isSpeaking')]_vars

\* the first translation was spoken to its end; the second one has an
\* unspoken portion without terminal punctuation, and the timeout armed for
\* it is pending while the page records and nothing is speaking
C37_Witness ==
    /\ isRecording
    /\ ~isSpeaking
    /\ speakOps = {}
    /\ lastSpoken = <<"b", ".">>
    /\ translatedText = <<"b", " ", "b">>
    /\ timers = {[portion |-> <<"b">>, text |-> translatedText, speaking |-> FALSE,
                  held |-> TRUE]}

\* C38: the isTranslating flag is set exactly while a translateText call is
\* awaiting its response; in particular a step that ends one call while
\* another one is still pending leaves the flag set.
C38_TranslatingWhileInFlight ==
    /\ [](isTranslating <=> calls # {})
    /\ [][(\E c \in calls : c \notin calls') /\ calls' # {} => isTranslating']_vars

\* C39: the close event of a connection that stopRecording closed (it was open
\* when the stop toggle was made, and close() was called without a code)
\* leaves the error state of the session as it was, unless the connection
\* failed before the closing handshake ended (code 1006); so a stop of an open
\* session whose connection does not fail leaves no connectivity error.
C39_OwnCloseSetsNoError ==
    [][\A s \in 1..MaxStarts :
          (/\ sessions[s].ws = "closing"
           /\ sessions'[s].ws = "closed"
           /\ sessions'[s].code # AbnormalClosure)
             => audioError' = audioError]_vars

====
